---------------------------- MODULE Spec2Model ----------------------------
(***************************************************************************)
(* A model of the SaaS Landing API (src/main.py): the credential helpers   *)
(* hash_password / verify_password, the auth endpoints signup and login,   *)
(* and the blog and contact endpoints, over a document store with the      *)
(* collections user, blogpost and contactmessage.                          *)
(*                                                                         *)
(* Text values (str) are sequences of one-character strings, so that       *)
(* concatenation, split and slicing are computed as Python computes them.  *)
(***************************************************************************)
EXTENDS Integers, Sequences, FiniteSets, TLC

VARIABLES
    users,            \* the "user" collection, in insertion order
    blogpost,         \* the "blogpost" collection, in insertion order
    contactmessage,   \* the "contactmessage" collection, in insertion order
    pc,               \* per request handler: where it is in its endpoint
    local,            \* per request handler: the payload of a signup in flight
    last,             \* the last response sent to a client
    call,             \* the last direct call of a credential helper
    prev              \* the hash_password call right before `call`, if any

vars == <<users, blogpost, contactmessage, pc, local, last, call, prev>>

-----------------------------------------------------------------------------
(* Bounds of the model *)

\* longest password drawn for the direct calls of the credential helpers
MaxPwdLen == 2

\* longest hand-written stored credential string
MaxStoredLen == 3

\* the documents the store may hold, all collections together
MaxDocs == 2

-----------------------------------------------------------------------------
(* Python values *)

\* Optional[T]: None, or Some(v); `x or y` treats None and "" alike as false
None == <<>>
Some(v) == <<v>>

\* how many distinct values the random generator behind secrets is drawn from
NumSalts == 2

\* secrets.token_hex(16): 16 random bytes
SaltBytes == 16

\* hashlib.sha256(...).hexdigest(): 32 bytes as 64 hexadecimal characters
DigestHexLen == 64

\* payload.content[:180]
ExcerptLen == 180

\* the hexadecimal alphabet of token_hex and hexdigest
HexDigits ==
    <<"0", "1", "2", "3", "4", "5", "6", "7", "8", "9", "a", "b", "c", "d", "e", "f">>

\* str.encode("utf-8") of one character of the model's alphabet: its byte
encode(c) ==
    CASE c = " " -> 32  [] c = "$" -> 36  [] c = "-" -> 45  [] c = "." -> 46
      [] c = "0" -> 48  [] c = "1" -> 49  [] c = "2" -> 50  [] c = "3" -> 51
      [] c = "4" -> 52  [] c = "5" -> 53  [] c = "6" -> 54  [] c = "7" -> 55
      [] c = "8" -> 56  [] c = "9" -> 57  [] c = "@" -> 64  [] c = "A" -> 65
      [] c = "H" -> 72  [] c = "a" -> 97  [] c = "b" -> 98  [] c = "c" -> 99
      [] c = "d" -> 100 [] c = "e" -> 101 [] c = "f" -> 102 [] c = "h" -> 104
      [] c = "p" -> 112 [] c = "q" -> 113 [] c = "x" -> 120 [] c = "y" -> 121

\* the digest's state after the first n bytes of the text
RECURSIVE absorb(_, _)
absorb(text, n) ==
    IF n = 0 THEN 1
    ELSE (absorb(text, n - 1) * 127 + encode(text[n])) % (16 ^ 6)

\* hashlib.sha256(text.encode("utf-8")).hexdigest(): a deterministic digest of
\* the bytes of the text, rendered as DigestHexLen hexadecimal characters.  The
\* compression function is a multiplicative hash of width 16^6 (no two texts
\* the model digests collide, see DigestCollisionFree).
sha256_hexdigest(text) ==
    LET n == absorb(text, Len(text))
    IN  [i \in 1..DigestHexLen |->
            LET k == DigestHexLen - i
            IN  IF k >= 6 THEN "0" ELSE HexDigits[((n \div (16 ^ k)) % 16) + 1]]

\* secrets.token_hex(nbytes): the values it may return, 2 * nbytes hexadecimal
\* characters each
token_hex(nbytes) ==
    {[i \in 1..(2 * nbytes) |-> HexDigits[k]] : k \in 1..NumSalts}

\* secrets.token_urlsafe(24): an opaque random value no code ever reads
token_urlsafe == {"token"}

\* datetime.utcnow(): an opaque value no code ever reads
utcnow == "utcnow"

\* str.split(sep) for a one-character separator: the list of the parts
RECURSIVE split(_, _)
split(s, sep) ==
    IF \A i \in 1..Len(s) : s[i] # sep THEN <<s>>
    ELSE LET i == CHOOSE j \in 1..Len(s) :
                      s[j] = sep /\ \A k \in 1..(j - 1) : s[k] # sep
         IN  <<SubSeq(s, 1, i - 1)>> \o split(SubSeq(s, i + 1, Len(s)), sep)

-----------------------------------------------------------------------------
(* Utility helpers *)

\* a mutant of hash_password: the salt is left out of the digest
hash_password_unsalted(password, salt, random) ==
    LET s == IF salt = None \/ salt = Some(<<>>) THEN random ELSE salt[1]
    IN  s \o <<"$">> \o sha256_hexdigest(password)

\* a mutant of hash_password: the salt is not random
hash_password_fixed_salt(password, salt, random) ==
    LET s == IF salt = None \/ salt = Some(<<>>)
             THEN [i \in 1..(2 * SaltBytes) |-> "0"] ELSE salt[1]
    IN  s \o <<"$">> \o sha256_hexdigest(s \o password)

\* hash_password(password, salt=None); `random` is the value token_hex(16)
\* returns when it is called
hash_password(password, salt, random) ==
    LET s == IF salt = None \/ salt = Some(<<>>) THEN random ELSE salt[1]
        hashed == sha256_hexdigest(s \o password)
    IN  s \o <<"$">> \o hashed

\* the outcome of a call: a returned value or a raised exception
Return(v) == [raised |-> FALSE, value |-> v]
Raise(e) == [raised |-> TRUE, exc |-> e]

\* `salt, digest = parts`: unpacking a list into two names raises ValueError
\* unless the list has exactly two elements
unpack2(parts) ==
    IF Len(parts) = 2 THEN Return(parts) ELSE Raise("ValueError")

\* a mutant of verify_password: the ValueError of the unpacking is not caught
verify_password_uncaught(password, stored) ==
    LET u == unpack2(split(stored, "$"))
    IN  IF u.raised THEN u
        ELSE Return(sha256_hexdigest(u.value[1] \o password) = u.value[2])

\* a mutant of verify_password: the plaintext is left out of the digest
verify_password_salt_only(password, stored) ==
    LET u == unpack2(split(stored, "$"))
    IN  IF u.raised /\ u.exc = "ValueError" THEN Return(FALSE)
        ELSE Return(sha256_hexdigest(u.value[1]) = u.value[2])

\* verify_password(password, stored): the except clause turns the ValueError
\* of the unpacking into False
verify_password(password, stored) ==
    LET u == unpack2(split(stored, "$"))
    IN  IF u.raised /\ u.exc = "ValueError" THEN Return(FALSE)
        ELSE LET salt == u.value[1]
                 digest == u.value[2]
             IN  Return(sha256_hexdigest(salt \o password) = digest)

-----------------------------------------------------------------------------
(* The document store (database.py) *)

Min(a, b) == IF a < b THEN a ELSE b

\* a document matches an equality filter
Matches(doc, filter) ==
    \A k \in DOMAIN filter : k \in DOMAIN doc /\ doc[k] = filter[k]

\* get_documents(collection_name, filter, limit): up to `limit` documents of
\* the collection that match the filter, in insertion order
get_documents(collection, filter, limit) ==
    LET found == SelectSeq(collection, LAMBDA d : Matches(d, filter))
    IN  SubSeq(found, 1, Min(limit, Len(found)))

\* the identifier the store gives the next document: unique over the store
generated_id == Len(users) + Len(blogpost) + Len(contactmessage) + 1

\* create_document(collection_name, record): the collection with the record
\* inserted under a generated identifier (returned as generated_id)
create_document(collection, record) ==
    Append(collection, record @@ ("_id" :> generated_id))

\* a dict without one key: dict.pop(key, None), or a comprehension over the others
pop(doc, key) == [k \in DOMAIN doc \ {key} |-> doc[k]]

-----------------------------------------------------------------------------
(* Requests *)

\* the threads of the server's pool, each handling one request at a time
Handlers == {"h1", "h2"}

Emails == {<<"a", "@", "b">>, <<"c", "@", "d">>}

SignupRequest ==
    [name : {<<"A">>}, email : Emails, password : {<<"p">>, <<"q">>}]

LoginRequest == [email : Emails, password : {<<"p">>, <<"q">>}]

BlogCreate ==
    [title : {<<" ", "H", " ", "A", " ">>}, author : {<<"A">>},
     content : {<<"x">>}, tags : {None}, status : {"published"}]
    \cup
    [title : {<<" ", "H", " ", "A", " ">>}, author : {<<"A">>},
     content : {[i \in 1..(ExcerptLen + 1) |-> "y"]},
     tags : {Some(<<"t">>)}, status : {"draft"}]

ContactRequest ==
    [name : {<<"A">>}, email : {<<"a", "@", "b">>}, message : {<<"x">>},
     subject : {None}]

\* a handler with no signup in flight holds no payload
NoPayload == [name |-> <<>>, email |-> <<>>, password |-> <<>>]

\* HTTPException(status_code, detail), as the framework renders it
HTTPException(status_code, detail) ==
    [status |-> status_code, body |-> [detail |-> detail]]

\* a handler's return value, as the framework renders it
OK(body) == [status |-> 200, body |-> body]

Response(endpoint, request, r) ==
    [endpoint |-> endpoint, request |-> request, status |-> r.status,
     body |-> r.body]

NoResponse == [endpoint |-> "none"]

TotalDocs == Len(users) + Len(blogpost) + Len(contactmessage)

InFlight == Cardinality({t \in Handlers : pc[t] = "signup_insert"})

\* a thread of the pool is free to take a request
SomeIdle == {t \in Handlers : pc[t] = "idle"} # {}

-----------------------------------------------------------------------------
(* Auth endpoints *)

\* a mutant of SignupCheck: the result of the existence check is ignored
SignupCheckIgnored(t, payload) ==
    /\ pc[t] = "idle"
    /\ TotalDocs + InFlight < MaxDocs
    /\ pc' = [pc EXCEPT ![t] = "signup_insert"]
    /\ local' = [local EXCEPT ![t] = payload]
    /\ UNCHANGED <<last, users, blogpost, contactmessage, call, prev>>

\* a mutant of SignupCheck: a duplicate is answered with the conflict status
SignupCheckConflict(t, payload) ==
    /\ pc[t] = "idle"
    /\ LET existing == get_documents(users, [email |-> payload.email], 1)
       IN  IF existing # <<>>
           THEN /\ last' = Response("signup", payload,
                                HTTPException(409, "Email already registered"))
                /\ UNCHANGED <<pc, local>>
           ELSE /\ TotalDocs + InFlight < MaxDocs
                /\ pc' = [pc EXCEPT ![t] = "signup_insert"]
                /\ local' = [local EXCEPT ![t] = payload]
                /\ UNCHANGED last
    /\ UNCHANGED <<users, blogpost, contactmessage, call, prev>>

\* signup, lines 124-126: the existence check.  A request that passes it goes
\* on to the insert, which is a separate call to the store.
SignupCheck(t, payload) ==
    /\ pc[t] = "idle"
    /\ LET existing == get_documents(users, [email |-> payload.email], 1)
       IN  IF existing # <<>>
           THEN /\ last' = Response("signup", payload,
                                HTTPException(400, "Email already registered"))
                /\ UNCHANGED <<pc, local>>
           ELSE /\ TotalDocs + InFlight < MaxDocs
                /\ pc' = [pc EXCEPT ![t] = "signup_insert"]
                /\ local' = [local EXCEPT ![t] = payload]
                /\ UNCHANGED last
    /\ UNCHANGED <<users, blogpost, contactmessage, call, prev>>

\* a mutant of SignupInsert: the store refuses a second record with the email
SignupInsertUnique(t) ==
    /\ pc[t] = "signup_insert"
    /\ IF get_documents(users, [email |-> local[t].email], 1) # <<>>
       THEN /\ last' = Response("signup", local[t],
                            HTTPException(400, "Email already registered"))
            /\ UNCHANGED users
       ELSE \E random \in token_hex(SaltBytes), token \in token_urlsafe :
              LET user_doc == [name |-> local[t].name, email |-> local[t].email,
                               password_hash |->
                                   hash_password(local[t].password, None, random),
                               is_active |-> TRUE, created_at |-> utcnow]
              IN  /\ users' = create_document(users, user_doc)
                  /\ last' = Response("signup", local[t],
                        OK([user |-> pop(user_doc @@ ("_id" :> generated_id),
                                         "password_hash"),
                            token |-> token]))
    /\ pc' = [pc EXCEPT ![t] = "idle"]
    /\ local' = [local EXCEPT ![t] = NoPayload]
    /\ UNCHANGED <<blogpost, contactmessage, call, prev>>

\* a mutant of SignupInsert: the record is returned as it was stored
SignupInsertUnstripped(t) ==
    /\ pc[t] = "signup_insert"
    /\ \E random \in token_hex(SaltBytes), token \in token_urlsafe :
         LET user_doc == [name |-> local[t].name, email |-> local[t].email,
                          password_hash |->
                              hash_password(local[t].password, None, random),
                          is_active |-> TRUE, created_at |-> utcnow]
         IN  /\ users' = create_document(users, user_doc)
             /\ last' = Response("signup", local[t],
                   OK([user |-> user_doc @@ ("_id" :> generated_id),
                       token |-> token]))
    /\ pc' = [pc EXCEPT ![t] = "idle"]
    /\ local' = [local EXCEPT ![t] = NoPayload]
    /\ UNCHANGED <<blogpost, contactmessage, call, prev>>

\* signup, lines 127-140: derive the credential, insert the record, issue a
\* token and return the record without its password_hash
SignupInsert(t) ==
    /\ pc[t] = "signup_insert"
    /\ \E random \in token_hex(SaltBytes), token \in token_urlsafe :
         LET pwd_hash == hash_password(local[t].password, None, random)
             user_doc == [name |-> local[t].name, email |-> local[t].email,
                          password_hash |-> pwd_hash, is_active |-> TRUE,
                          created_at |-> utcnow]
             _id == generated_id
         IN  /\ users' = create_document(users, user_doc)
             /\ last' = Response("signup", local[t],
                   OK([user |-> pop(user_doc @@ ("_id" :> _id), "password_hash"),
                       token |-> token]))
    /\ pc' = [pc EXCEPT ![t] = "idle"]
    /\ local' = [local EXCEPT ![t] = NoPayload]
    /\ UNCHANGED <<blogpost, contactmessage, call, prev>>

\* dict.get("password_hash", "")
get_password_hash(user) ==
    IF "password_hash" \in DOMAIN user THEN user["password_hash"] ELSE <<>>

\* a mutant of login_result: an unknown email is told apart from a wrong password
login_result_enumerable(payload, token) ==
    LET found == get_documents(users, [email |-> payload.email], 1)
    IN  IF found = <<>> THEN HTTPException(404, "Unknown email")
        ELSE LET v == verify_password(payload.password, get_password_hash(found[1]))
             IN  IF v.raised THEN HTTPException(500, "Internal Server Error")
                 ELSE IF ~v.value THEN HTTPException(401, "Invalid credentials")
                 ELSE OK([user |-> pop(found[1], "password_hash"), token |-> token])

\* login, lines 145-153: what the request is answered with; `token` is the
\* value token_urlsafe(24) returns.  An exception other than HTTPException
\* leaves the handler as a 500.
login_result(payload, token) ==
    LET found == get_documents(users, [email |-> payload.email], 1)
    IN  IF found = <<>> THEN HTTPException(401, "Invalid credentials")
        ELSE LET user == found[1]
                 v == verify_password(payload.password, get_password_hash(user))
             IN  IF v.raised THEN HTTPException(500, "Internal Server Error")
                 ELSE IF ~v.value THEN HTTPException(401, "Invalid credentials")
                 ELSE OK([user |-> pop(user, "password_hash"), token |-> token])

\* login, handled by a free thread: one read of the store, then the check
Login(payload) ==
    /\ SomeIdle
    /\ \E token \in token_urlsafe :
         last' = Response("login", payload, login_result(payload, token))
    /\ UNCHANGED <<users, blogpost, contactmessage, pc, local, call, prev>>

-----------------------------------------------------------------------------
(* Blog endpoints *)

\* str.lower() of one character
lower_char(c) == CASE c = "A" -> "a" [] c = "H" -> "h" [] OTHER -> c

lower(s) == [i \in 1..Len(s) |-> lower_char(s[i])]

\* str.strip(): without the whitespace at both ends
RECURSIVE strip(_)
strip(s) ==
    IF s = <<>> THEN s
    ELSE IF Head(s) = " " THEN strip(Tail(s))
    ELSE IF s[Len(s)] = " " THEN strip(SubSeq(s, 1, Len(s) - 1))
    ELSE s

\* str.replace(old, new) for one-character old and new
replace(s, old, new) == [i \in 1..Len(s) |-> IF s[i] = old THEN new ELSE s[i]]

\* list_posts(limit)
ListPosts(limit) ==
    /\ SomeIdle
    /\ LET posts == get_documents(blogpost, [status |-> "published"], limit)
       IN  last' = Response("list_posts", [limit |-> limit],
                OK([items |-> [i \in 1..Len(posts) |-> pop(posts[i], "password_hash")]]))
    /\ UNCHANGED <<users, blogpost, contactmessage, pc, local, call, prev>>

\* get_post(slug)
GetPost(slug) ==
    /\ SomeIdle
    /\ LET docs == get_documents(blogpost, [slug |-> slug], 1)
       IN  last' = Response("get_post", [slug |-> slug],
                IF docs = <<>> THEN HTTPException(404, "Post not found")
                ELSE OK(docs[1]))
    /\ UNCHANGED <<users, blogpost, contactmessage, pc, local, call, prev>>

\* create_post(payload)
CreatePost(payload) ==
    /\ SomeIdle
    /\ TotalDocs + InFlight < MaxDocs
    /\ LET slug == replace(strip(lower(payload.title)), " ", "-")
           doc == [title |-> payload.title,
                   slug |-> slug,
                   excerpt |-> IF Len(payload.content) > ExcerptLen
                               THEN SubSeq(payload.content, 1, ExcerptLen)
                                    \o <<".", ".", ".">>
                               ELSE payload.content,
                   content |-> payload.content,
                   author |-> payload.author,
                   tags |-> IF payload.tags = None \/ payload.tags = Some(<<>>)
                            THEN <<>> ELSE payload.tags[1],
                   published_at |-> utcnow,
                   status |-> payload.status]
           _id == generated_id
       IN  /\ blogpost' = create_document(blogpost, doc)
           /\ last' = Response("create_post", payload, OK(doc @@ ("_id" :> _id)))
    /\ UNCHANGED <<users, contactmessage, pc, local, call, prev>>

-----------------------------------------------------------------------------
(* Contact endpoint *)

\* submit_contact(payload)
SubmitContact(payload) ==
    /\ SomeIdle
    /\ TotalDocs + InFlight < MaxDocs
    /\ LET doc == [name |-> payload.name, email |-> payload.email,
                   message |-> payload.message, subject |-> payload.subject,
                   handled |-> FALSE, received_at |-> utcnow]
           _id == generated_id
       IN  /\ contactmessage' = create_document(contactmessage, doc)
           /\ last' = Response("submit_contact", payload,
                               OK([status |-> "ok", id |-> _id]))
    /\ UNCHANGED <<users, blogpost, pc, local, call, prev>>

-----------------------------------------------------------------------------
(* The server: requests handled by the threads of a pool, concurrently *)

NoCall == [fn |-> "none"]

Init ==
    /\ users = <<>>
    /\ blogpost = <<>>
    /\ contactmessage = <<>>
    /\ pc = [t \in Handlers |-> "idle"]
    /\ local = [t \in Handlers |-> NoPayload]
    /\ last = NoResponse
    /\ call = NoCall
    /\ prev = NoCall

Slugs == {<<"h", "-", "a">>, <<"x">>}

Limits == {1, 10}

Next ==
    \/ \E t \in Handlers, payload \in SignupRequest : SignupCheck(t, payload)
    \/ \E t \in Handlers : SignupInsert(t)
    \/ \E payload \in LoginRequest : Login(payload)
    \/ \E limit \in Limits : ListPosts(limit)
    \/ \E slug \in Slugs : GetPost(slug)
    \/ \E payload \in BlogCreate : CreatePost(payload)
    \/ \E payload \in ContactRequest : SubmitContact(payload)

Spec == Init /\ [][Next]_vars

-----------------------------------------------------------------------------
(* The server handling one request at a time: a request starts only when no
   other is in flight *)

AllIdle == {t \in Handlers : pc[t] # "idle"} = {}

NextSerial ==
    \/ \E t \in Handlers, payload \in SignupRequest :
           AllIdle /\ SignupCheck(t, payload)
    \/ \E t \in Handlers : SignupInsert(t)
    \/ \E payload \in LoginRequest : AllIdle /\ Login(payload)
    \/ \E limit \in Limits : AllIdle /\ ListPosts(limit)
    \/ \E slug \in Slugs : AllIdle /\ GetPost(slug)
    \/ \E payload \in BlogCreate : AllIdle /\ CreatePost(payload)
    \/ \E payload \in ContactRequest : AllIdle /\ SubmitContact(payload)

SpecSerial == Init /\ [][NextSerial]_vars

-----------------------------------------------------------------------------
(* The credential helpers called directly, on inputs drawn from bounded sets *)

\* every text of at most n characters over an alphabet
Texts(alphabet, n) == UNION {[1..k -> alphabet] : k \in 0..n}

Passwords == Texts({"p", "$"}, MaxPwdLen)

\* the salt arguments: none (the default), the empty text, and explicit salts
SaltArguments == {None, Some(<<>>), Some(<<"a", "b">>), Some(<<"a", "$">>)}

\* hand-written stored strings: every text over a hexadecimal character and
\* the delimiter
HandWritten == Texts({"a", "$"}, MaxStoredLen)

\* a direct call hash_password(password, salt)
HashCall(password, salt) ==
    /\ \E random \in token_hex(SaltBytes) :
         call' = [fn |-> "hash_password", password |-> password, salt |-> salt,
                  random |-> random,
                  ret |-> Return(hash_password(password, salt, random))]
    /\ prev' = IF call.fn = "hash_password" THEN call ELSE NoCall
    /\ UNCHANGED <<users, blogpost, contactmessage, pc, local, last>>

\* a direct call verify_password(password, stored)
VerifyCall(password, stored) ==
    /\ call' = [fn |-> "verify_password", password |-> password,
                stored |-> stored, ret |-> verify_password(password, stored)]
    /\ prev' = IF call.fn = "hash_password" THEN call ELSE NoCall
    /\ UNCHANGED <<users, blogpost, contactmessage, pc, local, last>>

\* the stored strings a direct call of verify_password is given: the
\* hand-written ones, and the credential the call before it derived, as it is
\* and with a second delimiter appended
StoredStrings ==
    HandWritten
    \cup (IF call.fn = "hash_password"
          THEN {call.ret.value, call.ret.value \o <<"$", "a">>} ELSE {})

\* at most one call has been made, and it derived a credential
FirstOrSecond == prev = NoCall /\ call.fn # "verify_password"

\* two calls in a row: a credential is derived and then derived again or
\* verified, or a hand-written string is verified
NextCred ==
    \/ \E password \in Passwords, salt \in SaltArguments :
           FirstOrSecond /\ HashCall(password, salt)
    \/ \E password \in Passwords, stored \in StoredStrings :
           FirstOrSecond /\ VerifyCall(password, stored)

SpecCred == Init /\ [][NextCred]_vars

-----------------------------------------------------------------------------
(* Login against a store that holds a user record the service did not write:
   its password_hash is missing, or is any hand-written string *)

LegacyUsers ==
    {[name |-> <<"A">>, email |-> <<"a", "@", "b">>, is_active |-> TRUE,
      created_at |-> utcnow, _id |-> 1]}
    \cup
    {[name |-> <<"A">>, email |-> <<"a", "@", "b">>, password_hash |-> h,
      is_active |-> TRUE, created_at |-> utcnow, _id |-> 1] : h \in HandWritten}

InitLegacy ==
    /\ users \in {<<u>> : u \in LegacyUsers}
    /\ blogpost = <<>>
    /\ contactmessage = <<>>
    /\ pc = [t \in Handlers |-> "idle"]
    /\ local = [t \in Handlers |-> NoPayload]
    /\ last = NoResponse
    /\ call = NoCall
    /\ prev = NoCall

NextLegacy ==
    \/ \E password \in Passwords :
           VerifyCall(password, get_password_hash(users[1]))
    \/ \E payload \in LoginRequest : Login(payload)

SpecLegacy == InitLegacy /\ [][NextLegacy]_vars

-----------------------------------------------------------------------------
(* Properties of the credential helpers (SpecCred) *)

\* the salt was generated: hash_password was given no salt, or an empty one
Generated(c) == c.fn = "hash_password" /\ c.salt \in {None, Some(<<>>)}

\* the digest tells apart every two texts the helpers may digest together: a
\* salt followed by a password
DigestCollisionFree ==
    \A r \in token_hex(SaltBytes) \cup {<<"a", "b">>, <<>>, <<"a">>} :
        \A p, q \in Passwords :
            p # q => sha256_hexdigest(r \o p) # sha256_hexdigest(r \o q)

\* C1: a credential derived from a password with a generated salt verifies
\* against that password.
C1_RoundTrip ==
    (/\ Generated(prev)
     /\ call.fn = "verify_password"
     /\ call.stored = prev.ret.value
     /\ call.password = prev.password)
    => call.ret = Return(TRUE)

C1_Witness ==
    /\ Generated(prev)
    /\ call.fn = "verify_password"
    /\ call.stored = prev.ret.value
    /\ call.password = prev.password
    /\ Len(call.password) = MaxPwdLen
    /\ call.password[1] = "$"
    /\ call.ret = Return(TRUE)

\* the stored string has exactly one delimiter, and the digest of what is
\* before it followed by the password is what is after it
Reproduces(password, stored) ==
    \E i \in 1..Len(stored) :
        /\ stored[i] = "$"
        /\ \A k \in 1..Len(stored) : stored[k] = "$" => k = i
        /\ sha256_hexdigest(SubSeq(stored, 1, i - 1) \o password)
               = SubSeq(stored, i + 1, Len(stored))

\* C2: a credential derived from a password q is rejected for every other
\* password p, and verify_password returns true only when the digest of the
\* embedded salt followed by the plaintext is the stored digest.
C2_WrongPasswordRejected ==
    /\ (/\ prev.fn = "hash_password"
        /\ call.fn = "verify_password"
        /\ call.stored = prev.ret.value
        /\ call.password # prev.password)
       => call.ret = Return(FALSE)
    /\ call.fn = "verify_password"
       => /\ ~call.ret.raised
          /\ call.ret.value <=> Reproduces(call.password, call.stored)

C2_Witness ==
    /\ Generated(prev)
    /\ call.fn = "verify_password"
    /\ call.stored = prev.ret.value
    /\ call.password # prev.password
    /\ call.ret = Return(FALSE)

\* C10 as stated: two calls hash_password(p) with no salt argument return
\* different credential strings.
C10_SaltedOutputsDiffer ==
    (/\ Generated(prev)
     /\ Generated(call)
     /\ call.password = prev.password)
    => call.ret.value # prev.ret.value

\* C10, amended: two calls hash_password(p) with no salt argument return
\* different credential strings exactly when the salts they generated differ.
C10_OutputsDifferWithSalts ==
    (/\ Generated(prev)
     /\ Generated(call)
     /\ call.password = prev.password)
    => (call.ret.value # prev.ret.value <=> call.random # prev.random)

C10_Witness ==
    /\ Generated(prev)
    /\ Generated(call)
    /\ call.password = prev.password
    /\ call.random # prev.random
    /\ call.ret.value # prev.ret.value

-----------------------------------------------------------------------------
(* Properties of a malformed stored credential (SpecLegacy) *)

\* the string does not split on the delimiter into exactly two parts
Malformed(stored) == Cardinality({i \in 1..Len(stored) : stored[i] = "$"}) # 1

InvalidCredentials == [detail |-> "Invalid credentials"]

\* C3: verify_password returns false, and does not raise, for every stored
\* string that does not split into exactly two parts; a login against a user
\* record whose password_hash is missing or malformed is answered 401
\* "Invalid credentials".
C3_MalformedRejected ==
    /\ (call.fn = "verify_password" /\ Malformed(call.stored))
       => call.ret = Return(FALSE)
    /\ (/\ last.endpoint = "login"
        /\ last.request.email = users[1].email
        /\ Malformed(get_password_hash(users[1])))
       => (last.status = 401 /\ last.body = InvalidCredentials)

C3_Witness ==
    /\ call.fn = "verify_password"
    /\ Malformed(call.stored)
    /\ call.stored # <<>>
    /\ "password_hash" \in DOMAIN users[1]
    /\ last.endpoint = "login"
    /\ last.request.email = users[1].email
    /\ last.status = 401

-----------------------------------------------------------------------------
(* Properties of the endpoints (Spec, SpecSerial) *)

Range(f) == {f[x] : x \in DOMAIN f}

\* the records a response carries to the client
Returned(r) ==
    IF r.endpoint = "none" THEN {}
    ELSE IF r.status # 200 THEN {r.body}
    ELSE IF r.endpoint \in {"signup", "login"} THEN {r.body, r.body.user}
    ELSE IF r.endpoint = "list_posts" THEN {r.body} \cup Range(r.body.items)
    ELSE {r.body}

\* the fields of the service's records that hold text
TextFields ==
    {"name", "email", "password_hash", "title", "slug", "excerpt", "content",
     "author", "message"}

StoredHashes ==
    {users[i].password_hash : i \in {k \in 1..Len(users) :
                                        "password_hash" \in DOMAIN users[k]}}

\* C4: no response carries a password_hash field, nor a stored password_hash
\* as the value of a field.
C4_PasswordHashNeverReturned ==
    \A d \in Returned(last) :
        /\ "password_hash" \notin DOMAIN d
        /\ \A k \in DOMAIN d \cap TextFields : d[k] \notin StoredHashes

C4_Witness ==
    /\ last.endpoint = "signup"
    /\ last.status = 200
    /\ \E i \in 1..Len(users) :
           /\ users[i]["_id"] = last.body.user["_id"]
           /\ "password_hash" \in DOMAIN users[i]
           /\ pop(users[i], "password_hash") = last.body.user

\* a record with the email is in the user collection
Registered(email) == \E i \in 1..Len(users) : users[i].email = email

\* the first record with the email, the one a login reads
FirstWith(email) ==
    users[CHOOSE i \in 1..Len(users) :
              users[i].email = email /\ \A k \in 1..(i - 1) : users[k].email # email]

\* the record's credential was derived from the password
DerivedFrom(user, password) ==
    \E random \in token_hex(SaltBytes) :
        user.password_hash = hash_password(password, None, random)

\* C5: in every state of the user collection, a login with an unknown email
\* and a login with a known email and a wrong password are answered alike:
\* 401 "Invalid credentials".
C5_LoginFailuresAlike ==
    /\ \A unknown, wrong \in LoginRequest, token \in token_urlsafe :
           (/\ ~Registered(unknown.email)
            /\ Registered(wrong.email)
            /\ ~DerivedFrom(FirstWith(wrong.email), wrong.password))
           => /\ login_result(unknown, token) = login_result(wrong, token)
              /\ login_result(wrong, token) = HTTPException(401, "Invalid credentials")
    /\ (last.endpoint = "login" /\ last.status # 200)
       => (last.status = 401 /\ last.body = InvalidCredentials)

C5_Witness ==
    /\ last.endpoint = "login"
    /\ Registered(last.request.email)
    /\ ~DerivedFrom(FirstWith(last.request.email), last.request.password)
    /\ \E e \in Emails : ~Registered(e)
    /\ last.status = 401

\* a signup with the email and the password has succeeded: its record is in
\* the user collection (SignupInsert inserts the record and answers 200 in one
\* step, and no record is ever removed or changed)
SignedUp(email, password) ==
    \E i \in 1..Len(users) :
        users[i].email = email /\ DerivedFrom(users[i], password)

\* C6: once signup(e, p) has succeeded, a login(e, p) succeeds and returns a
\* user record without a password_hash.
C6_LoginAfterSignup ==
    (last.endpoint = "login"
     /\ SignedUp(last.request.email, last.request.password))
    => /\ last.status = 200
       /\ "password_hash" \notin DOMAIN last.body.user

\* C7: a signup whose existence check finds a record with the email is
\* answered 400 "Email already registered", with no token, and neither
\* inserts nor changes a record of the user collection.
C7_DuplicateSignupRejected ==
    [][\A t \in Handlers, payload \in SignupRequest :
          (SignupCheck(t, payload) /\ Registered(payload.email))
          => /\ last' = Response("signup", payload,
                    [status |-> 400,
                     body |-> [detail |-> "Email already registered"]])
             /\ "token" \notin DOMAIN last'.body
             /\ users' = users
             /\ pc'[t] = "idle"]_vars

C7_Witness ==
    /\ last.endpoint = "signup"
    /\ last.status = 400
    /\ Registered(last.request.email)
    /\ \A t \in Handlers : pc[t] = "idle"

\* C8: with the requests handled one at a time, the user collection holds at
\* most one record per email.
C8_EmailUnique ==
    \A i, k \in 1..Len(users) : users[i].email = users[k].email => i = k

C8_Witness ==
    /\ Len(users) >= 2
    /\ last.endpoint = "signup"
    /\ last.status = 400

\* C9: the insert of a signup is not guarded by the existence check: a handler
\* that has passed the check inserts its record whatever the collection holds
\* by then, so two signups with one email that both pass the check before
\* either inserts both succeed and leave two records with the email.
C9_InsertUnguarded ==
    [][\A t \in Handlers :
          (pc[t] = "signup_insert" /\ pc'[t] = "idle")
          => /\ Len(users') = Len(users) + 1
             /\ users'[Len(users')].email = local[t].email
             /\ last'.endpoint = "signup"
             /\ last'.status = 200]_vars

C9_Witness ==
    /\ \E i, k \in 1..Len(users) : i # k /\ users[i].email = users[k].email
    /\ last.endpoint = "signup"
    /\ last.status = 200
    /\ last.body.user["_id"] = users[Len(users)]["_id"]
    /\ \E i \in 1..(Len(users) - 1) : users[i].email = last.request.email

====
